---- MODULE Spec2Model ----
(***************************************************************************)
(* Model of api/rss.js: the serverless handler that fetches the post list  *)
(* of a Beehiiv publication and renders it as an RSS 2.0 document.         *)
(*                                                                         *)
(* JavaScript values are tagged records [t |-> <typeof>, v |-> <payload>].  *)
(* A string is a sequence of tokens.  A token is either one character that *)
(* the code treats specially (& < > " ' / and the like) or an atom: a run  *)
(* of characters none of which is special (a word, a URL, a fixed literal  *)
(* of the source).  An absent field of an object is a key that is not in   *)
(* the DOMAIN of its payload.                                              *)
(***************************************************************************)
EXTENDS Integers, Sequences, FiniteSets, TLC

VARIABLES
  env,              \* process.env: the six configuration variables
  pc,               \* where the invocation stands
  now,              \* the wall clock, in milliseconds
  fetches,          \* the upstream requests issued so far
  beehiivResponse,  \* the upstream response, once fetch has resolved
  data,             \* the parsed upstream body
  args,             \* the arguments of the call of generateRSSFeed
  result,           \* what that call returned or raised
  error,            \* the exception the catch clause received
  headers,          \* the headers set with res.setHeader
  responses         \* the responses written to res

vars == <<env, pc, now, fetches, beehiivResponse, data, args, result, error,
          headers, responses>>

(***************************************************************************)
(* Bounds of the model.                                                    *)
(***************************************************************************)
MaxClock == 2
MaxPosts == 22
MaxPieces == 6

(***************************************************************************)
(* JavaScript values.                                                      *)
(***************************************************************************)
Undefined == [t |-> "undefined"]
Null == [t |-> "null"]
Str(s) == [t |-> "string", v |-> s]
Num(n) == [t |-> "number", v |-> n]
Obj(f) == [t |-> "object", v |-> f]
Arr(s) == [t |-> "array", v |-> s]
Throw(msg) == [t |-> "throw", v |-> msg]

IsThrow(x) == x.t = "throw"
IsNullish(x) == x.t \in {"undefined", "null"}

\* ToBoolean: undefined, null, '' and 0 are falsy; every object is truthy.
Truthy(x) ==
  CASE x.t \in {"undefined", "null"} -> FALSE
    [] x.t = "string" -> x.v # <<>>
    [] x.t = "number" -> x.v # 0
    [] OTHER -> TRUE

\* a || b
Or(a, b) == IF Truthy(a) THEN a ELSE b

\* o.k : raises a TypeError on undefined and null, gives undefined for a
\* key the value does not have.
Get(o, k) ==
  CASE IsNullish(o) -> Throw(<<"Cannot read properties of ", o.t>>)
    [] o.t = "object" -> IF k \in DOMAIN o.v THEN o.v[k] ELSE Undefined
    [] OTHER -> Undefined

\* o?.k : undefined on undefined and null, o.k otherwise.
OptGet(o, k) == IF IsNullish(o) THEN Undefined ELSE Get(o, k)

Min(a, b) == IF a <= b THEN a ELSE b

RECURSIVE Digits(_)
\* Number::toString of a natural number, one token per decimal digit.
Digits(n) ==
  LET d == <<"0", "1", "2", "3", "4", "5", "6", "7", "8", "9">>[(n % 10) + 1]
  IN IF n < 10 THEN <<d>> ELSE Append(Digits(n \div 10), d)

\* String conversion of a template literal's ${...}.
ToStr(x) ==
  CASE x.t = "string" -> x.v
    [] x.t = "number" -> Digits(x.v)
    [] x.t = "undefined" -> <<"undefined">>
    [] x.t = "null" -> <<"null">>
    [] OTHER -> <<"[object Object]">>

RECURSIVE Flatten(_)
Flatten(ss) == IF ss = <<>> THEN <<>> ELSE Head(ss) \o Flatten(Tail(ss))

\* str.replace(/c/g, repl) for a one-character pattern c.  The string is
\* bound to s, so that a chain of replacements evaluates each link once.
ReplaceAll(str, c, repl) ==
  CHOOSE out \in
    {Flatten([i \in 1..Len(s) |-> IF s[i] = c THEN repl ELSE <<s[i]>>]) :
       s \in {str}} : TRUE

(***************************************************************************)
(* generateRSSFeed and its helpers.                                        *)
(***************************************************************************)
ItemLimit == 20

\* new Date(ms).toUTCString(): an HTTP date, which has a resolution of one
\* second.
toUTCString(ms) == [utc |-> ms \div 1000]

\* new Date().toISOString(): millisecond resolution.
toISOString(ms) == [iso |-> ms]

escapeXml(str) ==
  IF ~Truthy(str) THEN Str(<<>>)
  ELSE IF str.t # "string" THEN Throw(<<"str.replace is not a function">>)
  ELSE LET s1 == ReplaceAll(str.v, "&", <<"&", "amp;">>)
           s2 == ReplaceAll(s1, "<", <<"&", "lt;">>)
           s3 == ReplaceAll(s2, ">", <<"&", "gt;">>)
           s4 == ReplaceAll(s3, "\"", <<"&", "quot;">>)
           s5 == ReplaceAll(s4, "'", <<"&", "#39;">>)
       IN Str(s5)

\* The i flag: the tag names match in either case.
Lower(tok) ==
  CASE tok = "SCRIPT" -> "script"
    [] tok = "STYLE" -> "style"
    [] OTHER -> tok

\* The least index >= from at which the token c stands, 0 if there is none.
IndexOf(s, c, from) ==
  LET hits == {j \in from..Len(s) : s[j] = c}
  IN IF hits = {} THEN 0 ELSE CHOOSE j \in hits : \A k \in hits : j <= k

\* Whether </tag> stands at index k.
ClosesAt(s, tag, k) ==
  /\ k + 3 <= Len(s)
  /\ s[k] = "<"
  /\ s[k + 1] = "/"
  /\ Lower(s[k + 2]) = tag
  /\ s[k + 3] = ">"

\* The index of the last token of the match of /<tag[^>]*>[\s\S]*?<\/tag>/i
\* that starts at index i, 0 if there is none.  [^>]* ends at the first >
\* after the tag name; the lazy [\s\S]*? ends at the first </tag> after it.
MatchEnd(s, tag, i) ==
  IF ~(i + 1 <= Len(s) /\ s[i] = "<" /\ Lower(s[i + 1]) = tag) THEN 0
  ELSE LET gt == IndexOf(s, ">", i + 2)
       IN IF gt = 0 THEN 0
          ELSE LET closes == {k \in (gt + 1)..Len(s) : ClosesAt(s, tag, k)}
               IN IF closes = {} THEN 0
                  ELSE (CHOOSE k \in closes : \A m \in closes : k <= m) + 3

RECURSIVE StripFrom(_, _, _)
\* html.replace(/<tag[^>]*>[\s\S]*?<\/tag>/gi, '') from index i on: one
\* left-to-right pass, matches do not overlap, the result is not rescanned.
StripFrom(s, tag, i) ==
  IF i > Len(s) THEN <<>>
  ELSE LET e == MatchEnd(s, tag, i)
       IN IF e = 0 THEN <<s[i]>> \o StripFrom(s, tag, i + 1)
          ELSE StripFrom(s, tag, e + 1)

StripBlocks(s, tag) == StripFrom(s, tag, 1)

cleanHtmlContent(html) ==
  IF ~Truthy(html) THEN Str(<<>>)
  ELSE IF html.t # "string" THEN Throw(<<"html.replace is not a function">>)
  ELSE LET cleaned == StripBlocks(html.v, "script")
       IN Str(StripBlocks(cleaned, "style"))

\* new Date(x).toUTCString() for a publish_date x; a value that is no number
\* of milliseconds renders as "Invalid Date".
InvalidDate == [utc |-> -1]
DateToUTCString(x) == IF x.t = "number" THEN toUTCString(x.v) ELSE InvalidDate

Confirmed == Str(<<"confirmed">>)

\* post => post.status === 'confirmed'
IsConfirmed(post) == Get(post, "status") = Confirmed

\* PostUrl without its first operand: the constructed URL for every post.
PostUrlOnlyFallback(post, feedUrl) ==
  Str(ToStr(feedUrl) \o <<"/post/">> \o ToStr(Get(post, "id")))

\* post.web_url || `${feedUrl}/post/${post.id}`
PostUrl(post, feedUrl) ==
  Or(Get(post, "web_url"),
     Str(ToStr(feedUrl) \o <<"/post/">> \o ToStr(Get(post, "id"))))

\* PostContent with . in place of ?. : post.content.free.web || ...
PostContentNoOptionalChaining(post) ==
  LET free == Get(Get(post, "content"), "free")
      web == IF IsThrow(free) THEN free ELSE Get(free, "web")
  IN IF IsThrow(web) THEN web
     ELSE Or(Or(web, Get(post, "subtitle")), Str(<<>>))

\* post.content?.free?.web || post.subtitle || ''
PostContent(post) ==
  Or(Or(OptGet(OptGet(Get(post, "content"), "free"), "web"),
        Get(post, "subtitle")),
     Str(<<>>))

\* The callback of .map: one <item> element, or the exception it raises.
RenderItem(post, config, currentDate) ==
  LET publish_date == Get(post, "publish_date")
      pubDate == IF Truthy(publish_date) THEN DateToUTCString(publish_date)
                 ELSE currentDate
      postUrl == PostUrl(post, config.feedUrl)
      raw == PostContent(post)
      content == IF IsThrow(raw) THEN raw ELSE cleanHtmlContent(raw)
      title == escapeXml(Or(Get(post, "title"), Str(<<"Untitled Post">>)))
  IN IF IsThrow(content) THEN content
     ELSE IF IsThrow(title) THEN title
     ELSE [t |-> "item",
           title |-> title.v,
           link |-> ToStr(postUrl),
           guid |-> ToStr(postUrl),
           pubDate |-> pubDate,
           author |-> ToStr(config.authorEmail),
           description |-> content.v]

\* array.slice(0, end)
Slice(s, end) == SubSeq(s, 1, Min(end, Len(s)))

\* SelectPosts with the two calls swapped: posts.slice(0, 20).filter(...)
SelectPostsSliceFirst(list) == SelectSeq(Slice(list, ItemLimit), IsConfirmed)

\* posts.filter(...).slice(0, 20)
SelectPosts(list) == Slice(SelectSeq(list, IsConfirmed), ItemLimit)

\* The first exception among the elements of s, Undefined if there is none.
FirstThrow(s) ==
  LET bad == {i \in 1..Len(s) : IsThrow(s[i])}
  IN IF bad = {} THEN Undefined
     ELSE s[CHOOSE i \in bad : \A j \in bad : i <= j]

\* generateRSSFeed(posts, config) called at time clock: the document, or
\* the exception raised.
generateRSSFeed(posts, config, clock) ==
  LET currentDate == toUTCString(clock)
  IN IF posts.t # "array" THEN Throw(<<"posts.filter is not a function">>)
     ELSE LET statuses == [i \in 1..Len(posts.v) |-> Get(posts.v[i], "status")]
              selected == SelectPosts(posts.v)
              rssItems == [i \in 1..Len(selected) |->
                             RenderItem(selected[i], config, currentDate)]
          IN IF FirstThrow(statuses) # Undefined THEN FirstThrow(statuses)
             ELSE IF FirstThrow(rssItems) # Undefined THEN FirstThrow(rssItems)
             ELSE [t |-> "xml",
                   channel |->
                     [title |-> escapeXml(config.title).v,
                      link |-> ToStr(config.feedUrl),
                      description |-> escapeXml(config.description).v,
                      language |-> <<"en-us">>,
                      lastBuildDate |-> currentDate,
                      managingEditor |-> ToStr(config.authorEmail),
                      webMaster |-> ToStr(config.authorEmail),
                      generator |-> <<"Beehiiv to Squarespace RSS Generator">>,
                      ttl |-> <<"60">>],
                   items |-> rssItems]

(***************************************************************************)
(* handler.                                                                *)
(***************************************************************************)
\* The times new Date() may read: 1.0 s, 1.6 s, 2.2 s, ...
Clocks == {1000 + 600 * k : k \in 0..MaxClock}

ApiKeys == {Undefined, Str(<<>>), Str(<<"key">>)}
PublicationIds == {Undefined, Str(<<>>), Str(<<"pub_1">>)}
FeedTitles == {Undefined, Str(<<"Tom ", "&", " Jerry">>)}
FeedUrls == {Undefined, Str(<<"https://e.com/?a=1", "&", "b=2">>)}
AuthorEmails == {Undefined, Str(<<"Ann ", "<", "ann@e.com", ">">>)}

Envs ==
  [BEEHIIV_API_KEY : ApiKeys, BEEHIIV_PUBLICATION_ID : PublicationIds,
   FEED_TITLE : FeedTitles, FEED_DESCRIPTION : {Undefined},
   FEED_URL : FeedUrls, AUTHOR_EMAIL : {Undefined}]

FEED_TITLE(e) == Or(e.FEED_TITLE, Str(<<"Your Newsletter">>))
FEED_DESCRIPTION(e) ==
  Or(e.FEED_DESCRIPTION, Str(<<"Latest posts from your newsletter">>))
FEED_URL(e) == Or(e.FEED_URL, Str(<<"https://your-site.com">>))
AUTHOR_EMAIL(e) == Or(e.AUTHOR_EMAIL, Str(<<"your-email@domain.com">>))

Config(e) ==
  [title |-> FEED_TITLE(e), description |-> FEED_DESCRIPTION(e),
   feedUrl |-> FEED_URL(e), authorEmail |-> AUTHOR_EMAIL(e)]

\* MissingConfig with && in place of || .
MissingConfigBothAbsent(e) ==
  ~Truthy(e.BEEHIIV_API_KEY) /\ ~Truthy(e.BEEHIIV_PUBLICATION_ID)

\* !API_KEY || !PUBLICATION_ID
MissingConfig(e) ==
  ~Truthy(e.BEEHIIV_API_KEY) \/ ~Truthy(e.BEEHIIV_PUBLICATION_ID)

BEEHIIV_API_URL(e) ==
  <<"https://api.beehiiv.com/v2/publications/">>
    \o ToStr(e.BEEHIIV_PUBLICATION_ID) \o <<"/posts">>

Request(e) ==
  [url |-> BEEHIIV_API_URL(e), method |-> "GET",
   contentType |-> <<"application/json">>,
   authorization |-> <<"Bearer ">> \o ToStr(e.BEEHIIV_API_KEY)]

ConfigErrorBody ==
  [error |-> <<"Missing required environment variables">>,
   details |-> <<"BEEHIIV_API_KEY", " and ", "BEEHIIV_PUBLICATION_ID",
                 " must be set in Vercel dashboard">>]

\* ErrorMessage without the body text.
ErrorMessageStatusOnly(status, errorText) ==
  <<"Beehiiv API responded with status: ">> \o Digits(status)

\* `Beehiiv API responded with status: ${status} - ${errorText}`
ErrorMessage(status, errorText) ==
  <<"Beehiiv API responded with status: ">> \o Digits(status)
    \o <<" - ">> \o errorText

RssHeaders ==
  {<<"Content-Type", "application/rss+xml; charset=utf-8">>,
   <<"Cache-Control", "public, s-maxage=3600, stale-while-revalidate=86400">>}

\* res.status(code).json(body)
Json(code, body) ==
  [status |-> code, kind |-> "json", headers |-> headers, body |-> body]

\* res.status(code).send(body)
Send(code, body) ==
  [status |-> code, kind |-> "send", headers |-> headers, body |-> body]

\* What the upstream may answer.
Statuses == {200, 404, 503}
BodyTexts == {<<>>, <<"rate limited">>, <<"<", "html", ">", "5", "0", "3">>}

APost ==
  Obj([id |-> Str(<<"post_1">>), status |-> Confirmed,
       title |-> Str(<<"Q", "&", "A">>),
       web_url |-> Str(<<"https://e.com/p/1">>)])
ADraft == Obj([id |-> Str(<<"post_2">>), status |-> Str(<<"draft">>)])
ANumberTitle == Obj([id |-> Str(<<"post_3">>), status |-> Confirmed,
                     title |-> Num(2024)])

JsonBodies ==
  {Null, Num(5), Str(<<"ok">>), Arr(<<APost>>), Obj(<<>>),
   Obj([data |-> Null]), Obj([data |-> Arr(<<>>)]),
   Obj([data |-> Arr(<<APost>>)]), Obj([data |-> Arr(<<ADraft, APost>>)]),
   Obj([data |-> Str(<<"none">>)]), Obj([data |-> Obj(<<>>)]),
   Obj([data |-> Arr(<<APost, Null>>)]),
   Obj([data |-> Arr(<<ANumberTitle>>)])}

Init ==
  /\ env \in Envs
  /\ pc = "start"
  /\ now = 1000
  /\ fetches = <<>>
  /\ beehiivResponse = Undefined
  /\ data = Undefined
  /\ args = Undefined
  /\ result = Undefined
  /\ error = Undefined
  /\ headers = {}
  /\ responses = <<>>

\* Lines 4-33: read the configuration, answer 500 if a required value is
\* missing, else issue the request and await it.
Start ==
  /\ pc = "start"
  /\ IF MissingConfig(env)
       THEN /\ responses' = Append(responses, Json(500, ConfigErrorBody))
            /\ pc' = "done"
            /\ UNCHANGED fetches
       ELSE /\ fetches' = Append(fetches, Request(env))
            /\ pc' = "awaitFetch"
            /\ UNCHANGED responses
  /\ UNCHANGED <<env, now, beehiivResponse, data, args, result, error, headers>>

\* fetch resolves with a response; line 35 picks the body reader.
FetchResolves ==
  /\ pc = "awaitFetch"
  /\ \E status \in Statuses :
       LET ok == status \in 200..299
       IN /\ beehiivResponse' =
               [t |-> "response", ok |-> ok, status |-> status,
                text |-> Undefined]
          /\ pc' = IF ok THEN "awaitJson" ELSE "awaitText"
  /\ UNCHANGED <<env, now, fetches, data, args, result, error, headers,
                 responses>>

\* fetch rejects (DNS, connection, TLS).
FetchRejects ==
  /\ pc = "awaitFetch"
  /\ error' = Throw(<<"fetch failed">>)
  /\ pc' = "catch"
  /\ UNCHANGED <<env, now, fetches, beehiivResponse, data, args, result,
                 headers, responses>>

\* Lines 36-38: the body text of a non-success response arrives, and the
\* error that embeds it is thrown.
TextResolves ==
  /\ pc = "awaitText"
  /\ \E errorText \in BodyTexts :
       /\ beehiivResponse' = [beehiivResponse EXCEPT !.text = Str(errorText)]
       /\ error' = Throw(ErrorMessage(beehiivResponse.status, errorText))
  /\ pc' = "catch"
  /\ UNCHANGED <<env, now, fetches, data, args, result, headers, responses>>

\* Line 36: reading the body fails.
TextRejects ==
  /\ pc = "awaitText"
  /\ error' = Throw(<<"terminated">>)
  /\ pc' = "catch"
  /\ UNCHANGED <<env, now, fetches, beehiivResponse, data, args, result,
                 headers, responses>>

\* Line 41: the body parses as JSON.
JsonResolves ==
  /\ pc = "awaitJson"
  /\ data' \in JsonBodies
  /\ pc' = "render"
  /\ UNCHANGED <<env, now, fetches, beehiivResponse, args, result, error,
                 headers, responses>>

\* Line 41: the body is no JSON, or reading it fails.
JsonRejects ==
  /\ pc = "awaitJson"
  /\ error' = Throw(<<"Unexpected token ", "<", " in JSON">>)
  /\ pc' = "catch"
  /\ UNCHANGED <<env, now, fetches, beehiivResponse, data, args, result,
                 headers, responses>>

\* Render outside the try block: an exception does not reach the catch
\* clause, and the handler goes on to the headers.
RenderIgnoringThrow ==
  /\ pc = "render"
  /\ LET list == Get(data, "data")
         posts == IF IsThrow(list) THEN list ELSE Or(list, Arr(<<>>))
         rssXml == IF IsThrow(posts) THEN posts
                   ELSE generateRSSFeed(posts, Config(env), now)
     IN /\ args' = IF IsThrow(posts) THEN args
                   ELSE [posts |-> posts, config |-> Config(env)]
        /\ result' = rssXml
        /\ error' = error
        /\ pc' = "setHeaders"
  /\ UNCHANGED <<env, now, fetches, beehiivResponse, data, headers, responses>>

\* Lines 42-50: data.data || [] and the call of generateRSSFeed; an
\* exception of either goes to the catch clause.
Render ==
  /\ pc = "render"
  /\ LET list == Get(data, "data")
         posts == IF IsThrow(list) THEN list ELSE Or(list, Arr(<<>>))
         rssXml == IF IsThrow(posts) THEN posts
                   ELSE generateRSSFeed(posts, Config(env), now)
     IN /\ args' = IF IsThrow(posts) THEN args
                   ELSE [posts |-> posts, config |-> Config(env)]
        /\ result' = IF IsThrow(posts) THEN result ELSE rssXml
        /\ error' = IF IsThrow(rssXml) THEN rssXml ELSE error
        /\ pc' = IF IsThrow(rssXml) THEN "catch" ELSE "setHeaders"
  /\ UNCHANGED <<env, now, fetches, beehiivResponse, data, headers, responses>>

\* Lines 53-54.
SetHeaders ==
  /\ pc = "setHeaders"
  /\ headers' = headers \cup RssHeaders
  /\ pc' = "send"
  /\ UNCHANGED <<env, now, fetches, beehiivResponse, data, args, result,
                 error, responses>>

\* Line 56.
SendFeed ==
  /\ pc = "send"
  /\ responses' = Append(responses, Send(200, result))
  /\ pc' = "done"
  /\ UNCHANGED <<env, now, fetches, beehiivResponse, data, args, result,
                 error, headers>>

FailedBody ==
  [error |-> <<"Failed to generate RSS feed">>,
   details |-> error.v,
   timestamp |-> toISOString(now)]

\* CatchError without its response.
CatchErrorSilently ==
  /\ pc = "catch"
  /\ pc' = "done"
  /\ UNCHANGED <<env, now, fetches, beehiivResponse, data, args, result,
                 error, headers, responses>>

\* CatchError that issues the request a second time before it gives up.
CatchErrorAndRetry ==
  /\ pc = "catch"
  /\ IF Len(fetches) < 2
       THEN /\ fetches' = Append(fetches, Request(env))
            /\ pc' = "awaitFetch"
            /\ UNCHANGED responses
       ELSE /\ responses' = Append(responses, Json(500, FailedBody))
            /\ pc' = "done"
            /\ UNCHANGED fetches
  /\ UNCHANGED <<env, now, beehiivResponse, data, args, result, error, headers>>

\* Lines 58-66: the catch clause.
CatchError ==
  /\ pc = "catch"
  /\ responses' = Append(responses, Json(500, FailedBody))
  /\ pc' = "done"
  /\ UNCHANGED <<env, now, fetches, beehiivResponse, data, args, result,
                 error, headers>>

\* Time passes while the invocation runs.
Tick ==
  /\ pc \in {"start", "awaitFetch", "awaitText", "awaitJson", "render",
             "setHeaders", "send", "catch"}
  /\ now' \in {c \in Clocks : c > now}
  /\ UNCHANGED <<env, pc, fetches, beehiivResponse, data, args, result, error,
                 headers, responses>>

HandlerStep ==
  \/ Start
  \/ FetchResolves
  \/ FetchRejects
  \/ TextResolves
  \/ TextRejects
  \/ JsonResolves
  \/ JsonRejects
  \/ Render
  \/ SetHeaders
  \/ SendFeed
  \/ CatchError

Next == HandlerStep \/ Tick

Spec == Init /\ [][Next]_vars

\* Every step of the handler that can be taken is taken: the runtime runs
\* the synchronous code to its end, and an awaited promise (fetch, text,
\* json) settles.
FairSpec == Spec /\ WF_vars(HandlerStep)

(***************************************************************************)
(* generateRSSFeed on its own: the post lists and configurations it is     *)
(* called with, and the call.                                              *)
(***************************************************************************)
Absent == [t |-> "absent"]

\* The object with the fields of f that are not Absent.
MkObj(f) == Obj([k \in {x \in DOMAIN f : f[x] # Absent} |-> f[k]])

Draft == Str(<<"draft">>)

SpecExampleHtml ==
  <<"<", "p", ">", "hi", "<", "/", "p", ">",
    "<", "script", ">", "alert(1)", "<", "/", "script", ">">>

ContentShapes ==
  {Absent, Null, Obj(<<>>), Obj([free |-> Null]), Obj([free |-> Obj(<<>>)]),
   Obj([free |-> Obj([web |-> Str(SpecExampleHtml)])])}

\* One post for every choice of absent and present fields.
PostShapes ==
  {MkObj(f) : f \in
     [id : {Absent, Str(<<"p1">>)},
      status : {Absent, Confirmed, Draft},
      publish_date : {Absent, Num(1500)},
      web_url : {Absent, Str(<<>>), Str(<<"https://e.com/p?a=1", "&", "b=2">>)},
      title : {Absent, Str(<<"Q", "&", "A ", "<", "1", ">">>)},
      subtitle : {Absent, Str(<<"sub">>)},
      content : ContentShapes]}

\* The list of n posts with the ids 1..n, confirmed but for those in holes.
NumberedPosts(n, holes) ==
  Arr([i \in 1..n |->
         IF i \in holes
           THEN IF i % 2 = 0 THEN MkObj([id |-> Num(i), status |-> Draft])
                ELSE MkObj([id |-> Num(i), status |-> Absent])
           ELSE MkObj([id |-> Num(i), status |-> Confirmed])])

LongLists ==
  UNION {{NumberedPosts(n, holes) :
            holes \in {{}, 1..n} \cup {{i, j} : i, j \in 1..n}} :
         n \in 0..MaxPosts}

\* No configuration variable is set.
NoEnv ==
  [BEEHIIV_API_KEY |-> Undefined, BEEHIIV_PUBLICATION_ID |-> Undefined,
   FEED_TITLE |-> Undefined, FEED_DESCRIPTION |-> Undefined,
   FEED_URL |-> Undefined, AUTHOR_EMAIL |-> Undefined]

Configs ==
  {Config(e) : e \in
     [BEEHIIV_API_KEY : {Undefined}, BEEHIIV_PUBLICATION_ID : {Undefined},
      FEED_TITLE : FeedTitles, FEED_DESCRIPTION : {Undefined},
      FEED_URL : FeedUrls, AUTHOR_EMAIL : AuthorEmails]}

RenderArgs ==
  [posts : {Arr(<<p>>) : p \in PostShapes}, config : Configs]
    \cup [posts : LongLists, config : {Config(NoEnv)}]

\* The handler is not running.
Idle(p) ==
  /\ pc = p
  /\ env = NoEnv
  /\ fetches = <<>>
  /\ beehiivResponse = Undefined
  /\ data = Undefined
  /\ result = Undefined
  /\ error = Undefined
  /\ headers = {}
  /\ responses = <<>>

InitRender ==
  /\ Idle("call")
  /\ now \in Clocks
  /\ args \in RenderArgs

CallRender ==
  /\ pc = "call"
  /\ result' = generateRSSFeed(args.posts, args.config, now)
  /\ pc' = "returned"
  /\ UNCHANGED <<env, now, fetches, beehiivResponse, data, args, error,
                 headers, responses>>

NextRender == CallRender

SpecRender == InitRender /\ [][NextRender]_vars

(***************************************************************************)
(* cleanHtmlContent on its own.                                            *)
(***************************************************************************)
Pieces ==
  {<<"<">>, <<">">>, <<"script">>, <<"x">>,
   <<"<", "script", ">">>, <<"<", "/", "script", ">">>,
   <<"<", "STYLE", ">">>, <<"<", "/", "style", ">">>}

\* The html strings made of at most MaxPieces pieces.
InitClean ==
  /\ Idle("call")
  /\ now = 1000
  /\ \E n \in 0..MaxPieces :
       \E ps \in [1..n -> Pieces] : args = Str(Flatten(ps))

CallClean ==
  /\ pc = "call"
  /\ result' = cleanHtmlContent(args)
  /\ pc' = "returned"
  /\ UNCHANGED <<env, now, fetches, beehiivResponse, data, args, error,
                 headers, responses>>

NextClean == CallClean

SpecClean == InitClean /\ [][NextClean]_vars

(***************************************************************************)
(* The claims.                                                             *)
(***************************************************************************)
Has(o, k) == o.t = "object" /\ k \in DOMAIN o.v

\* Whether the token sequence part occurs in s.
Contains(s, part) ==
  \E i \in 0..(Len(s) - Len(part)) :
    \A j \in 1..Len(part) : s[i + j] = part[j]

\* The indexes of the posts of list ps whose status is "confirmed".
ConfirmedAt(ps) ==
  {i \in 1..Len(ps) : Has(ps[i], "status") /\ ps[i].v.status = Confirmed}

\* The index in ps of its i-th confirmed post.
NthConfirmed(ps, i) ==
  CHOOSE j \in ConfirmedAt(ps) :
    Cardinality({m \in ConfirmedAt(ps) : m <= j}) = i

Returned == pc = "returned" /\ result.t = "xml"

\* C1: when BEEHIIV_API_KEY or BEEHIIV_PUBLICATION_ID is absent, no
\* upstream request is ever issued, and the one response is a 500 whose
\* JSON body has exactly the fields error and details, details naming both
\* variables.
C1_MissingConfig ==
  (env.BEEHIIV_API_KEY = Undefined \/ env.BEEHIIV_PUBLICATION_ID = Undefined)
    => /\ fetches = <<>>
       /\ pc \in {"start", "done"}
       /\ Len(responses) = IF pc = "done" THEN 1 ELSE 0
       /\ \A i \in 1..Len(responses) :
            /\ responses[i].status = 500
            /\ responses[i].kind = "json"
            /\ DOMAIN responses[i].body = {"error", "details"}
            /\ Contains(responses[i].body.details, <<"BEEHIIV_API_KEY">>)
            /\ Contains(responses[i].body.details, <<"BEEHIIV_PUBLICATION_ID">>)

C1_Witness ==
  /\ env.BEEHIIV_API_KEY = Undefined
  /\ env.BEEHIIV_PUBLICATION_ID = Str(<<"pub_1">>)
  /\ pc = "done"
  /\ Len(responses) = 1

\* C2: every invocation ends with exactly one response written, and at no
\* time have two been written.
C2_ExactlyOneResponse ==
  /\ <>[](Len(responses) = 1)
  /\ [](Len(responses) <= 1)

\* The renderer raised, and the one response was written.
C2_Witness ==
  /\ pc = "done"
  /\ Len(responses) = 1
  /\ args # Undefined
  /\ IsThrow(result)

\* C3: once the upstream has answered with a non-success status s and body
\* text b, the renderer is not called, no RSS header is set, and the
\* response is a 500 with the JSON fields error, details and timestamp,
\* error being "Failed to generate RSS feed" and details containing s and b.
C3_UpstreamFailure ==
  (beehiivResponse # Undefined /\ ~beehiivResponse.ok
     /\ beehiivResponse.text # Undefined)
    => /\ args = Undefined
       /\ result = Undefined
       /\ headers = {}
       /\ Len(responses) = IF pc = "done" THEN 1 ELSE 0
       /\ \A i \in 1..Len(responses) :
            /\ responses[i].status = 500
            /\ responses[i].kind = "json"
            /\ responses[i].headers = {}
            /\ DOMAIN responses[i].body = {"error", "details", "timestamp"}
            /\ responses[i].body.error = <<"Failed to generate RSS feed">>
            /\ Contains(responses[i].body.details,
                        Digits(beehiivResponse.status))
            /\ Contains(responses[i].body.details, beehiivResponse.text.v)

\* Status 503 with the body "rate limited".
C3_Witness ==
  /\ pc = "done"
  /\ beehiivResponse # Undefined
  /\ beehiivResponse.status = 503
  /\ beehiivResponse.text = Str(<<"rate limited">>)
  /\ Len(responses) = 1

\* C4: a response is either the 200 with the two RSS headers and the
\* document generateRSSFeed returned as its body, written only when the
\* fetch, the JSON parse and the rendering went through without error, or
\* a 500 with a JSON error object; the RSS headers are set only once the
\* rendering has returned a document.
C4_NoPartialSuccess ==
  /\ \A i \in 1..Len(responses) :
       \/ /\ responses[i].kind = "send"
          /\ responses[i].status = 200
          /\ responses[i].headers = RssHeaders
          /\ responses[i].body = result
          /\ result.t = "xml"
          /\ beehiivResponse # Undefined
          /\ beehiivResponse.ok
          /\ data # Undefined
          /\ error = Undefined
       \/ /\ responses[i].kind = "json"
          /\ responses[i].status = 500
          /\ {"error", "details"} \subseteq DOMAIN responses[i].body
          /\ responses[i].headers = {}
  /\ headers # {} => result.t = "xml"

\* The feed has been sent.
C4_Witness ==
  /\ pc = "done"
  /\ Len(responses) = 1
  /\ responses[1].status = 200
  /\ Len(responses[1].body.items) = 1

\* C5: the document has min(20, k) items, k the number of confirmed posts,
\* and its i-th item is the rendering of the i-th confirmed post.
C5_FilterLimitOrder ==
  Returned =>
    LET ps == args.posts.v
        items == result.items
    IN /\ Len(items) = Min(ItemLimit, Cardinality(ConfirmedAt(ps)))
       /\ \A i \in 1..Len(items) :
            items[i] = RenderItem(ps[NthConfirmed(ps, i)], args.config,
                                  toUTCString(now))

\* More than 20 confirmed posts, with an unconfirmed one before the 20th.
C5_Witness ==
  /\ Returned
  /\ Cardinality(ConfirmedAt(args.posts.v)) > ItemLimit
  /\ 3 \notin ConfirmedAt(args.posts.v)
  /\ Len(result.items) = ItemLimit

\* No raw & < > " ' : each & starts one of the five entities.
NoRawSpecials(s) ==
  \A i \in 1..Len(s) :
    /\ s[i] \notin {"<", ">", "\"", "'"}
    /\ s[i] = "&" =>
         /\ i < Len(s)
         /\ s[i + 1] \in {"amp;", "lt;", "gt;", "quot;", "#39;"}

\* C6: every value outside CDATA (the channel's title, link, description,
\* managingEditor and webMaster, each item's title, link, guid and author)
\* is XML-escaped, so none holds a raw & < > " '.
C6_EscapedOutsideCdata ==
  Returned =>
    /\ NoRawSpecials(result.channel.title)
    /\ NoRawSpecials(result.channel.link)
    /\ NoRawSpecials(result.channel.description)
    /\ NoRawSpecials(result.channel.managingEditor)
    /\ NoRawSpecials(result.channel.webMaster)
    /\ \A i \in 1..Len(result.items) :
         /\ NoRawSpecials(result.items[i].title)
         /\ NoRawSpecials(result.items[i].link)
         /\ NoRawSpecials(result.items[i].guid)
         /\ NoRawSpecials(result.items[i].author)

\* Whether s holds a <tag ...> ... </tag> block.
HasBlock(s, tag) == \E i \in 1..Len(s) : MatchEnd(s, tag, i) # 0

\* C7: the cleaned description holds no <script> and no <style> block, and
\* a text without such a block is kept as it is.
C7_NoBlockLeft ==
  pc = "returned" =>
    /\ ~HasBlock(result.v, "script")
    /\ ~HasBlock(result.v, "style")
    /\ (~HasBlock(args.v, "script") /\ ~HasBlock(args.v, "style"))
         => result.v = args.v

\* `${feedUrl}/post/${id}`, an absent id reading "undefined".
FallbackUrl(post, config) ==
  config.feedUrl.v \o <<"/post/">>
    \o ToStr(IF Has(post, "id") THEN post.v.id ELSE Undefined)

\* C8 as stated: guid equals link, both the post's web_url when it is
\* present and the constructed {feedUrl}/post/{id} when it is absent.
C8_LinkIsWebUrlWhenPresent ==
  Returned =>
    \A i \in 1..Len(result.items) :
      LET post == args.posts.v[NthConfirmed(args.posts.v, i)]
      IN /\ result.items[i].guid = result.items[i].link
         /\ result.items[i].link =
              IF Has(post, "web_url") THEN post.v.web_url.v
              ELSE FallbackUrl(post, args.config)

\* C8 as amended: guid equals link, both the post's web_url when it is
\* present and not the empty string, and the constructed
\* {feedUrl}/post/{id} when web_url is absent or empty.
C8_LinkIsWebUrlWhenNonEmpty ==
  Returned =>
    \A i \in 1..Len(result.items) :
      LET post == args.posts.v[NthConfirmed(args.posts.v, i)]
      IN /\ result.items[i].guid = result.items[i].link
         /\ result.items[i].link =
              IF Has(post, "web_url") /\ post.v.web_url.v # <<>>
                THEN post.v.web_url.v
                ELSE FallbackUrl(post, args.config)

\* An item of a post with a web_url, and its link is that URL.
C8_Witness ==
  /\ Returned
  /\ Len(result.items) = 1
  /\ Has(args.posts.v[1], "web_url")
  /\ args.posts.v[1].v.web_url.v # <<>>
  /\ result.items[1].link = args.posts.v[1].v.web_url.v

\* C10: whatever fields of a post are absent, generateRSSFeed does not
\* raise; a post without status yields no item; a confirmed post yields an
\* item with the default of each absent field.
C10_AbsentFields ==
  pc = "returned" =>
    /\ result.t = "xml"
    /\ \A j \in 1..Len(args.posts.v) :
         ~Has(args.posts.v[j], "status") => j \notin ConfirmedAt(args.posts.v)
    /\ Len(result.items) <= Cardinality(ConfirmedAt(args.posts.v))
    /\ \A i \in 1..Len(result.items) :
         LET post == args.posts.v[NthConfirmed(args.posts.v, i)]
             item == result.items[i]
             noWeb == \/ ~Has(post, "content")
                      \/ ~Has(post.v.content, "free")
                      \/ ~Has(post.v.content.v.free, "web")
         IN /\ ~Has(post, "title") => item.title = <<"Untitled Post">>
            /\ ~Has(post, "publish_date") => item.pubDate = toUTCString(now)
            /\ ~Has(post, "web_url")
                 => item.link = FallbackUrl(post, args.config)
            /\ noWeb => item.description =
                          IF Has(post, "subtitle") THEN post.v.subtitle.v
                          ELSE <<>>

\* A confirmed post with nothing but its status.
C10_Witness ==
  /\ Returned
  /\ Len(args.posts.v) = 1
  /\ DOMAIN args.posts.v[1].v = {"status"}
  /\ Len(result.items) = 1

\* C9: at most one upstream request is issued; it is issued before any
\* rendering and before any response; once an error has been caught no
\* request is issued, and the invocation ends with one 500 response.
C9_State ==
  /\ Len(fetches) <= 1
  /\ (args # Undefined \/ beehiivResponse # Undefined) => Len(fetches) = 1
  /\ (pc = "done" /\ error # Undefined)
       => Len(responses) = 1 /\ responses[1].status = 500

C9_Step ==
  /\ fetches' # fetches
       => args = Undefined /\ result = Undefined /\ responses = <<>>
  /\ error # Undefined => fetches' = fetches

C9_OneRequestNoRetry == []C9_State /\ [][C9_Step]_vars

\* The upstream failed, and the one request it took has been answered.
C9_Witness ==
  /\ pc = "done"
  /\ error # Undefined
  /\ beehiivResponse # Undefined
  /\ ~beehiivResponse.ok
  /\ Len(fetches) = 1
  /\ Len(responses) = 1

====
